---- MODULE Spec2Model ----
(***************************************************************************)
(* A model of FluidSolver (src/solver/FluidSolver.cpp) and of the Cell it  *)
(* works on (src/solver/Cell.h).                                           *)
(*                                                                         *)
(* Numbers.  The solver computes in single-precision floats.  The model    *)
(* computes in fixed point:                                                *)
(*   - a position is an integer number of 1/PosUnit cells,                 *)
(*   - a velocity (and a pressure) an integer number of 1/VelUnit,         *)
(*   - a time an integer number of ticks, TicksPerSec ticks to the second. *)
(* A product of two fixed-point numbers is rounded to the nearest unit     *)
(* (RoundDiv).  +infinity, the IEEE-754 result of 2.0f / 0.0f, is the      *)
(* value Inf, larger than every finite time of the model.                  *)
(*                                                                         *)
(* Grid, Vector2 and the bodies of Cell's members are not part of the      *)
(* sources at hand; the operators that stand for them (section Grid, and   *)
(* magnitude, commitStagedVel) follow the specification's sections 4.1     *)
(* and 4.2.  Widths and heights are whole numbers of cells.                *)
(***************************************************************************)
EXTENDS Integers, Sequences, FiniteSets, TLC

(***************************************************************************)
(* Bounds of the model.                                                    *)
(***************************************************************************)
\* the largest width and height handed to the constructor
MaxDim == 4
\* number of frames advanceFrame() may simulate in one behaviour
MaxFrames == 2

(***************************************************************************)
(* Fixed-point resolution.                                                 *)
(***************************************************************************)
PosUnit == 1000
VelUnit == 500
TicksPerSec == 3000
Inf == 1073741823

(***************************************************************************)
(* Constants of the program.                                               *)
(***************************************************************************)
\* float frameTimeSec = 1.0f/30.0f, in ticks
FrameTicks == 100
\* float CFLCoefficient = 2.0f, in cells
CFLCoefficient == 2
\* Vector2 gravity(0.0f, -0.098), in 1/1000 cells per second squared
GravityMilli == -98
\* grid(x,y).pressure = 1.0f, in velocity units
UnitPressure == 500
\* for (unsigned i = 0; i < 4; i++) for (unsigned j = 0; j < 4; j++)
TracersPerAxis == 4
\* 0.20f * (i + 1), in position units
TracerSpacing == 200

\* the widths and heights the constructor is called with: two that are not
\* positive and the positive ones up to MaxDim
DimInputs == (-1) .. MaxDim

\* Cell::FLUID, Cell::EMPTY, Cell::SOLID
CellTypes == {"FLUID", "EMPTY", "SOLID"}

(***************************************************************************)
(* Arithmetic helpers.                                                     *)
(***************************************************************************)
\* a / b rounded to the nearest integer (b > 0)
RoundDiv(a, b) == (2 * a + b) \div (2 * b)

Abs(a) == IF a < 0 THEN -a ELSE a

\* Body applied to the value of v, which is computed once
Let(v, Body(_)) == CHOOSE r \in {Body(x) : x \in {v}} : TRUE

RECURSIVE SqrtSearch(_, _, _)
\* the largest r in lo..hi with r * r <= n
SqrtSearch(n, lo, hi) ==
  IF lo >= hi THEN lo
  ELSE LET mid == (lo + hi + 1) \div 2
       IN IF mid * mid <= n THEN SqrtSearch(n, mid, hi)
                              ELSE SqrtSearch(n, lo, mid - 1)

\* floor of the square root of n, 0 <= n < 2^31
Isqrt(n) == SqrtSearch(n, 0, 46340)

(***************************************************************************)
(* Vector2 (a pair <<x, y>>) and Cell.                                     *)
(***************************************************************************)
\* Vector2::magnitude()
magnitude(v) == Isqrt(v[1] * v[1] + v[2] * v[2])

\* Cell::X and Cell::Y, as indices of vel and stagedVel
X == 1
Y == 2

\* Cell::commitStagedVel(): vel takes stagedVel, stagedVel is kept
commitStagedVel(cell) == [cell EXCEPT !.vel = cell.stagedVel]

(***************************************************************************)
(* Grid.                                                                   *)
(***************************************************************************)
\* the cells of a grid of w columns and h rows, as <<x, y>>
Cells(w, h) == (0 .. (w - 1)) \X (0 .. (h - 1))

\* Cell::neighbors[POS_X] and [POS_Y] are set exactly where the cell exists
HasPosX(w, x) == x + 1 < w

HasPosY(h, y) == y + 1 < h

Clamp(v, lo, hi) == IF v < lo THEN lo ELSE IF v > hi THEN hi ELSE v

\* linear interpolation between a (t = 0) and b (t = PosUnit)
Lerp(a, b, t) == a + RoundDiv((b - a) * t, PosUnit)

\* One component of the velocity at the point (px, py), interpolated
\* bilinearly between the four surrounding samples of that component.
\* The samples of component dim lie at offset (ox, oy) inside their cell.
Bilinear(g, w, h, dim, px, py, ox, oy) ==
  LET fx == px - ox
      fy == py - oy
      i0 == fx \div PosUnit
      j0 == fy \div PosUnit
      tx == fx - i0 * PosUnit
      ty == fy - j0 * PosUnit
      ia == Clamp(i0, 0, w - 1)
      ib == Clamp(i0 + 1, 0, w - 1)
      ja == Clamp(j0, 0, h - 1)
      jb == Clamp(j0 + 1, 0, h - 1)
      lo == Lerp(g[<<ia, ja>>].vel[dim], g[<<ib, ja>>].vel[dim], tx)
      hi == Lerp(g[<<ia, jb>>].vel[dim], g[<<ib, jb>>].vel[dim], tx)
  IN Lerp(lo, hi, ty)

\* Grid::getVelocity(position): the query point is clamped into
\* [0, width] x [0, height]; the X component is sampled at integer x and
\* half y, the Y component at half x and integer y.
getVelocity(g, w, h, pos) ==
  LET px == Clamp(pos[1], 0, w * PosUnit)
      py == Clamp(pos[2], 0, h * PosUnit)
  IN << Bilinear(g, w, h, X, px, py, 0, PosUnit \div 2),
        Bilinear(g, w, h, Y, px, py, PosUnit \div 2, 0) >>

\* Grid::getMaxVelocity(): the velocity of largest magnitude among the
\* cells, zero for a grid without cells
getMaxVelocity(g, w, h) ==
  LET sq(v) == v[1] * v[1] + v[2] * v[2]
  IN IF Cells(w, h) = {} THEN <<0, 0>>
     ELSE CHOOSE v \in {g[c].vel : c \in Cells(w, h)} :
            \A c \in Cells(w, h) : sq(g[c].vel) <= sq(v)

\* Grid::getVelocityDivergence(x, y); a face outside the grid carries 0
getVelocityDivergence(g, w, h, x, y) ==
  LET vx1 == IF HasPosX(w, x) THEN g[<<x + 1, y>>].vel[X] ELSE 0
      vy1 == IF HasPosY(h, y) THEN g[<<x, y + 1>>].vel[Y] ELSE 0
  IN (vx1 - g[<<x, y>>].vel[X]) + (vy1 - g[<<x, y>>].vel[Y])

RECURSIVE SumAbsDivergenceFrom(_, _, _, _)
\* the sum of the absolute divergence of the cells index, index + 1, ...,
\* where index = y * cols + x
SumAbsDivergenceFrom(g, w, h, index) ==
  IF index >= w * h THEN 0
  ELSE Abs(getVelocityDivergence(g, w, h, index % w, index \div w))
       + SumAbsDivergenceFrom(g, w, h, index + 1)

\* the sum over all cells of the absolute value of the divergence
SumAbsDivergence(g, w, h) == SumAbsDivergenceFrom(g, w, h, 0)

(***************************************************************************)
(* FluidSolver: pure parts.                                                *)
(***************************************************************************)
\* sin(x * 45.215 + y * 88.15468) / 2 in velocity units, row x + 1, column
\* y + 1, for x and y in 0..5
ResetVelX ==
  << <<0, 47, 93, 135, 172, 203>>,
     <<236, 247, 250, 243, 228, 205>>,
     <<156, 117, 73, 26, -21, -68>>,
     <<-132, -170, -201, -226, -242, -249>>,
     <<-244, -229, -207, -176, -140, -98>>,
     <<-30, 18, 64, 109, 149, 185>> >>

\* sin(x * 2.548 + y * 121.1215) / 2 in velocity units, row x + 1, column
\* y + 1, for x and y in 0..5
ResetVelY ==
  << <<0, 246, -83, -218, 157, 165>>,
     <<140, -228, -63, 249, -22, -242>>,
     <<-232, 131, 187, -195, -121, 236>>,
     <<245, 10, -248, 74, 223, -149>>,
     <<-174, -148, 224, 72, -248, 12>>,
     <<43, 235, -123, -194, 189, 130>> >>

\* the grid reset() builds: every cell FLUID, unit pressure, the test field
ResetGrid(w, h) ==
  [c \in Cells(w, h) |->
     [cellType |-> "FLUID",
      pressure |-> UnitPressure,
      vel |-> <<ResetVelX[c[1] + 1][c[2] + 1], ResetVelY[c[1] + 1][c[2] + 1]>>,
      stagedVel |-> <<0, 0>>]]

\* the tracers reset() pushes: for y, for x, for i, for j
ResetParticles(w, h) ==
  LET perCell == TracersPerAxis * TracersPerAxis
      n == IF w > 0 /\ h > 0 THEN perCell * w * h ELSE 0
  IN [k \in 1 .. n |->
        LET cellIdx == (k - 1) \div perCell
            within == (k - 1) % perCell
            x == cellIdx % w
            y == cellIdx \div w
            i == within \div TracersPerAxis
            j == within % TracersPerAxis
        IN << x * PosUnit + TracerSpacing * (i + 1),
              y * PosUnit + TracerSpacing * (j + 1) >>]

\* variant of reset() that keeps the particles it finds
KeepParticles(particles) == particles

\* _particles.clear()
ClearParticles(particles) == << >>

\* variant of the division that gives 0 for a zero magnitude
CFLTimeStepZero(mag) ==
  IF mag = 0 THEN 0
  ELSE (CFLCoefficient * TicksPerSec * VelUnit) \div mag

\* CFLCoefficient / magnitude, in ticks; a zero magnitude gives +infinity
CFLTimeStep(mag) ==
  IF mag = 0 THEN Inf
  ELSE (CFLCoefficient * TicksPerSec * VelUnit) \div mag

\* variant of the time-step choice without the comparison
UnclampedTimeStep(simStep, frameTime) == simStep

\* if (simTimeStepSec > frameTimeSec) simTimeStepSec = frameTimeSec;
ClampTimeStep(simStep, frameTime) ==
  IF simStep > frameTime THEN frameTime ELSE simStep

\* one component of velocity * time, as a displacement in position units
Displace(v, dt) == RoundDiv(v * dt, (VelUnit * TicksPerSec) \div PosUnit)

\* position += _grid.getVelocity(position) * -timeStepSec
Backtrace(g, w, h, pos, dt) ==
  LET v == getVelocity(g, w, h, pos)
  IN << pos[1] + Displace(v[1], -dt), pos[2] + Displace(v[2], -dt) >>

\* the four ifs that follow the backtrace in advectVelocity, in their order
ClampPosition(w, h, pos) ==
  LET p1 == IF pos[1] < 0 THEN <<0, pos[2]>> ELSE pos
      p2 == IF p1[2] > w * PosUnit THEN <<w * PosUnit, p1[2]>> ELSE p1
      p3 == IF p2[2] < 0 THEN <<p2[1], 0>> ELSE p2
      p4 == IF p3[2] > h * PosUnit THEN <<p3[1], h * PosUnit>> ELSE p3
  IN p4

\* in-place variant of the staging write
StageInPlace(g, c, dim, val) == [g EXCEPT ![c].vel[dim] = val]

\* cell.stagedVel[dim] = val
StageVel(g, c, dim, val) == [g EXCEPT ![c].stagedVel[dim] = val]

\* the face sample the X loop of advectVelocity visits at step k: x outer
FaceX(w, h, k) ==
  LET x == k \div h
      y == k % h
  IN [cell |-> <<x, y>>, pos |-> <<x * PosUnit, y * PosUnit + PosUnit \div 2>>]

\* the face sample the Y loop of advectVelocity visits at step k: y outer
FaceY(w, h, k) ==
  LET y == k \div w
      x == k % w
  IN [cell |-> <<x, y>>, pos |-> <<x * PosUnit + PosUnit \div 2, y * PosUnit>>]

\* commitStagedVel() on every cell
CommitAll(g, w, h) == [c \in Cells(w, h) |-> commitStagedVel(g[c])]

\* gravity * timeStepSec, in velocity units
GravityStep(dt) ==
  << 0, RoundDiv(GravityMilli * VelUnit * dt, 1000 * TicksPerSec) >>

\* applyGlobalVelocity(velocity)
applyGlobalVelocity(g, w, h, velocity) ==
  [c \in Cells(w, h) |->
     [g[c] EXCEPT !.vel = << g[c].vel[X] + velocity[1],
                             g[c].vel[Y] + velocity[2] >>]]

\* the body of pressureSolve's loop for the cell (x, y)
PressureCell(g, w, h, x, y, dt) ==
  LET c == <<x, y>>
      pressureVel == RoundDiv(dt * g[c].pressure, TicksPerSec)
      g1 == [g EXCEPT ![c].vel = << g[c].vel[X] - pressureVel,
                                    g[c].vel[Y] - pressureVel >>]
      g2 == IF HasPosX(w, x)
            THEN [g1 EXCEPT ![<<x + 1, y>>].vel[X] = @ + pressureVel]
            ELSE g1
      g3 == IF HasPosY(h, y)
            THEN [g2 EXCEPT ![<<x, y + 1>>].vel[Y] = @ + pressureVel]
            ELSE g2
  IN IF g[c].cellType = "FLUID" THEN g3 ELSE g

RECURSIVE PressureLoop(_, _, _, _, _)
\* pressureSolve's loop from step k on: x outer, y inner
PressureLoop(g, w, h, k, dt) ==
  IF k >= w * h THEN g
  ELSE Let(PressureCell(g, w, h, k \div h, k % h, dt),
           LAMBDA g1 : PressureLoop(g1, w, h, k + 1, dt))

\* pressureSolve(timeStepSec); the divergence it computes is discarded
pressureSolve(g, w, h, dt) == PressureLoop(g, w, h, 0, dt)

\* variant of the first loop body that leaves the top row's type alone
ColumnPassKeepType(g, col, rows) ==
  [g EXCEPT ![<<col, 0>>].vel[Y] = 0,
            ![<<col, rows - 1>>].vel = <<0, 0>>]

\* the body of boundaryCollide's first loop, for one column
ColumnPass(g, col, rows) ==
  LET g1 == [g EXCEPT ![<<col, 0>>].vel[Y] = 0]
      g2 == [g1 EXCEPT ![<<col, rows - 1>>].vel[X] = 0]
      g3 == [g2 EXCEPT ![<<col, rows - 1>>].vel[Y] = 0]
  IN [g3 EXCEPT ![<<col, rows - 1>>].cellType = "SOLID"]

\* variant of the second loop body that leaves the right column's Y alone
RowPassKeepY(g, row, cols) ==
  LET g1 == [g EXCEPT ![<<0, row>>].vel[X] = 0]
      g2 == [g1 EXCEPT ![<<cols - 1, row>>].vel[X] = 0]
  IN [g2 EXCEPT ![<<cols - 1, row>>].cellType = "SOLID"]

\* the body of boundaryCollide's second loop, for one row
RowPass(g, row, cols) ==
  LET g1 == [g EXCEPT ![<<0, row>>].vel[X] = 0]
      g2 == [g1 EXCEPT ![<<cols - 1, row>>].vel[X] = 0]
      g3 == [g2 EXCEPT ![<<cols - 1, row>>].vel[Y] = 0]
  IN [g3 EXCEPT ![<<cols - 1, row>>].cellType = "SOLID"]

RECURSIVE ColumnLoop(_, _, _, _)
ColumnLoop(g, col, cols, rows) ==
  IF col >= cols THEN g
  ELSE ColumnLoop(ColumnPass(g, col, rows), col + 1, cols, rows)

RECURSIVE RowLoop(_, _, _, _)
RowLoop(g, row, cols, rows) ==
  IF row >= rows THEN g
  ELSE RowLoop(RowPass(g, row, cols), row + 1, cols, rows)

\* boundaryCollide(): cols = w, rows = h
boundaryCollide(g, w, h) == RowLoop(ColumnLoop(g, 0, w, h), 0, w, h)

\* moveParticles(timeStepSec)
moveParticles(g, w, h, particles, dt) ==
  [k \in 1 .. Len(particles) |->
     LET v == getVelocity(g, w, h, particles[k])
     IN << particles[k][1] + Displace(v[1], dt),
           particles[k][2] + Displace(v[2], dt) >>]

\* variant of draw's test that renders whatever the flag says
AlwaysRender(ready) == TRUE

\* if (_frameReady) in draw
ShouldRender(ready) == ready

\* the velocity field of a grid
VelField(g, w, h) == [c \in Cells(w, h) |-> g[c].vel]

(***************************************************************************)
(* State.                                                                  *)
(***************************************************************************)
VARIABLES
  pc,              \* "none": no solver; "idle": between calls; else the
                   \* position inside advanceFrame()
  _width, _height, \* FluidSolver::_width, _height
  _grid,           \* FluidSolver::_grid: cell <<x, y>> -> Cell
  _frameReady,     \* FluidSolver::_frameReady
  _particles,      \* FluidSolver::_particles
  frameTimeSec,    \* advanceFrame's local: the remaining frame time
  simTimeStepSec,  \* advanceFrame's local: the sub-step's dt
  cursor,          \* the step of the loop in progress in advectVelocity
  samplePos,       \* the points handed to the sampler for the last staging
  drawGridCalls,   \* the renderer: drawGrid calls of the last operation
  lastOp,          \* the public operation running or last run
  entryReady,      \* _frameReady when advanceFrame() was last called
  stepped,         \* the running or last advanceFrame() ran a sub-step
  maxMag,          \* the max velocity magnitude the last sub-step read
  preVel,          \* the velocity field when advectVelocity was entered
  divBefore,       \* the sum of |divergence| when pressureSolve was entered
  fluidBefore,     \* every cell was FLUID when pressureSolve was entered
  frames           \* number of frames simulated so far

solver == <<_width, _height, _grid, _frameReady, _particles>>

locals == <<frameTimeSec, simTimeStepSec, cursor, samplePos>>

history == <<entryReady, stepped, maxMag, preVel, divBefore, fluidBefore>>

vars == <<pc, solver, locals, drawGridCalls, lastOp, history, frames>>

\* no point has been handed to the sampler
NoPos == << >>

\* the part of the state a solver does not own, before any call
InitRest ==
  /\ frameTimeSec = 0
  /\ simTimeStepSec = 0
  /\ cursor = 0
  /\ samplePos = NoPos
  /\ drawGridCalls = << >>
  /\ entryReady = FALSE
  /\ stepped = FALSE
  /\ maxMag = 0
  /\ preVel = << >>
  /\ divBefore = 0
  /\ fluidBefore = FALSE
  /\ frames = 0

Init ==
  /\ pc = "none"
  /\ _width = 0
  /\ _height = 0
  /\ _grid = << >>
  /\ _frameReady = FALSE
  /\ _particles = << >>
  /\ lastOp = "none"
  /\ InitRest

(***************************************************************************)
(* The public operations.                                                  *)
(***************************************************************************)
\* the assignments of reset()
ResetBody ==
  /\ _particles' = ClearParticles(_particles) \o ResetParticles(_width', _height')
  /\ _grid' = ResetGrid(_width', _height')
  /\ _frameReady' = FALSE

\* FluidSolver::FluidSolver(width, height)
Construct ==
  /\ pc = "none"
  /\ \E w \in DimInputs, h \in DimInputs :
       /\ _width' = w
       /\ _height' = h
  /\ ResetBody
  /\ pc' = "idle"
  /\ lastOp' = "construct"
  /\ drawGridCalls' = << >>
  /\ UNCHANGED <<locals, history, frames>>

\* FluidSolver::reset(), as called by the resetSimulation signal
Reset ==
  /\ pc = "idle"
  /\ UNCHANGED <<_width, _height>>
  /\ ResetBody
  /\ lastOp' = "reset"
  /\ drawGridCalls' = << >>
  /\ UNCHANGED <<pc, locals, history, frames>>

\* FluidSolver::draw(renderer)
Draw ==
  /\ pc = "idle"
  /\ IF ShouldRender(_frameReady)
     THEN /\ drawGridCalls' = << [grid |-> _grid, particles |-> _particles] >>
          /\ _frameReady' = FALSE
     ELSE /\ drawGridCalls' = << >>
          /\ UNCHANGED _frameReady
  /\ lastOp' = "draw"
  /\ UNCHANGED <<pc, _width, _height, _grid, _particles, locals, history, frames>>

\* FluidSolver::advanceFrame() is called: its locals are initialised.
\* Only a grid with at least one row and one column is advanced.
AdvanceFrame ==
  /\ pc = "idle"
  /\ _width >= 1 /\ _height >= 1
  /\ _frameReady \/ frames < MaxFrames
  /\ frameTimeSec' = FrameTicks
  /\ entryReady' = _frameReady
  /\ stepped' = FALSE
  /\ frames' = IF _frameReady THEN frames ELSE frames + 1
  /\ lastOp' = "advanceFrame"
  /\ drawGridCalls' = << >>
  /\ pc' = "loop"
  /\ UNCHANGED <<solver, simTimeStepSec, cursor, samplePos, maxMag, preVel,
                 divBefore, fluidBefore>>

(***************************************************************************)
(* The steps of advanceFrame().                                            *)
(***************************************************************************)
\* while (!_frameReady) fails: advanceFrame() returns
LoopExit ==
  /\ pc = "loop"
  /\ _frameReady
  /\ pc' = "idle"
  /\ UNCHANGED <<solver, locals, drawGridCalls, lastOp, history, frames>>

\* if (frameTimeSec <= 0.0f) { _frameReady = true; break; }
LoopReady ==
  /\ pc = "loop"
  /\ ~_frameReady
  /\ frameTimeSec <= 0
  /\ _frameReady' = TRUE
  /\ pc' = "idle"
  /\ UNCHANGED <<_width, _height, _grid, _particles, locals, drawGridCalls,
                 lastOp, history, frames>>

\* the time step is chosen and advanceTimeStep, advectVelocity are entered
LoopStep ==
  /\ pc = "loop"
  /\ ~_frameReady
  /\ frameTimeSec > 0
  /\ maxMag' = magnitude(getMaxVelocity(_grid, _width, _height))
  /\ simTimeStepSec' = ClampTimeStep(CFLTimeStep(maxMag'), frameTimeSec)
  /\ stepped' = TRUE
  /\ preVel' = VelField(_grid, _width, _height)
  /\ cursor' = 0
  /\ samplePos' = NoPos
  /\ pc' = "stageX"
  /\ UNCHANGED <<solver, frameTimeSec, drawGridCalls, lastOp, entryReady,
                 divBefore, fluidBefore, frames>>

\* one pass of advectVelocity's first loop: the X velocity of one face
StageX ==
  /\ pc = "stageX"
  /\ LET face == FaceX(_width, _height, cursor)
         position == ClampPosition(_width, _height,
                       Backtrace(_grid, _width, _height, face.pos,
                                 simTimeStepSec))
     IN \E p \in {position} :
          /\ samplePos' = p
          /\ _grid' = StageVel(_grid, face.cell, X,
                               getVelocity(_grid, _width, _height, p)[X])
  /\ IF cursor + 1 < _width * _height
     THEN cursor' = cursor + 1 /\ pc' = "stageX"
     ELSE cursor' = 0 /\ pc' = "stageY"
  /\ UNCHANGED <<_width, _height, _frameReady, _particles, frameTimeSec,
                 simTimeStepSec, drawGridCalls, lastOp, history, frames>>

\* one pass of advectVelocity's second loop: the Y velocity of one face
StageY ==
  /\ pc = "stageY"
  /\ LET face == FaceY(_width, _height, cursor)
         position == ClampPosition(_width, _height,
                       Backtrace(_grid, _width, _height, face.pos,
                                 simTimeStepSec))
     IN \E p \in {position} :
          /\ samplePos' = p
          /\ _grid' = StageVel(_grid, face.cell, Y,
                               getVelocity(_grid, _width, _height, p)[Y])
  /\ IF cursor + 1 < _width * _height
     THEN cursor' = cursor + 1 /\ pc' = "stageY"
     ELSE cursor' = 0 /\ pc' = "commit"
  /\ UNCHANGED <<_width, _height, _frameReady, _particles, frameTimeSec,
                 simTimeStepSec, drawGridCalls, lastOp, history, frames>>

\* advectVelocity's third loop: every cell commits its staged velocity
Commit ==
  /\ pc = "commit"
  /\ _grid' = CommitAll(_grid, _width, _height)
  /\ samplePos' = NoPos
  /\ pc' = "force"
  /\ UNCHANGED <<_width, _height, _frameReady, _particles, frameTimeSec,
                 simTimeStepSec, cursor, drawGridCalls, lastOp, history, frames>>

\* applyGlobalVelocity(gravity * timeStepSec)
ApplyForce ==
  /\ pc = "force"
  /\ _grid' = applyGlobalVelocity(_grid, _width, _height,
                                  GravityStep(simTimeStepSec))
  /\ pc' = "pressure"
  /\ UNCHANGED <<_width, _height, _frameReady, _particles, locals,
                 drawGridCalls, lastOp, history, frames>>

\* pressureSolve(timeStepSec)
PressureSolve ==
  /\ pc = "pressure"
  /\ divBefore' = SumAbsDivergence(_grid, _width, _height)
  /\ fluidBefore' = \A c \in Cells(_width, _height) : _grid[c].cellType = "FLUID"
  /\ _grid' = pressureSolve(_grid, _width, _height, simTimeStepSec)
  /\ pc' = "boundary"
  /\ UNCHANGED <<_width, _height, _frameReady, _particles, locals,
                 drawGridCalls, lastOp, entryReady, stepped, maxMag, preVel,
                 frames>>

\* boundaryCollide()
BoundaryCollide ==
  /\ pc = "boundary"
  /\ _grid' = boundaryCollide(_grid, _width, _height)
  /\ pc' = "particles"
  /\ UNCHANGED <<_width, _height, _frameReady, _particles, locals,
                 drawGridCalls, lastOp, history, frames>>

\* moveParticles(timeStepSec); advanceTimeStep returns
MoveParticles ==
  /\ pc = "particles"
  /\ _particles' = moveParticles(_grid, _width, _height, _particles,
                                 simTimeStepSec)
  /\ pc' = "decrement"
  /\ UNCHANGED <<_width, _height, _grid, _frameReady, locals, drawGridCalls,
                 lastOp, history, frames>>

\* frameTimeSec -= simTimeStepSec
Decrement ==
  /\ pc = "decrement"
  /\ frameTimeSec' = frameTimeSec - simTimeStepSec
  /\ pc' = "loop"
  /\ UNCHANGED <<solver, simTimeStepSec, cursor, samplePos, drawGridCalls,
                 lastOp, history, frames>>

\* the steps inside advanceFrame()
Step ==
  \/ LoopExit
  \/ LoopReady
  \/ LoopStep
  \/ StageX
  \/ StageY
  \/ Commit
  \/ ApplyForce
  \/ PressureSolve
  \/ BoundaryCollide
  \/ MoveParticles
  \/ Decrement

Next ==
  \/ Construct
  \/ Reset
  \/ Draw
  \/ AdvanceFrame
  \/ LoopExit
  \/ LoopReady
  \/ LoopStep
  \/ StageX
  \/ StageY
  \/ Commit
  \/ ApplyForce
  \/ PressureSolve
  \/ BoundaryCollide
  \/ MoveParticles
  \/ Decrement

Spec == Init /\ [][Next]_vars

\* advanceFrame() runs to completion on the caller's thread
LiveSpec == Init /\ [][Next]_vars /\ WF_vars(Step)

(***************************************************************************)
(* advanceFrame() on an arbitrary grid.  The solver starts idle with no    *)
(* frame ready; its grid is all zero or the grid of reset(), but for one   *)
(* cell whose velocity and type are arbitrary; its particles are the       *)
(* tracers of the first cell.                                              *)
(***************************************************************************)
\* the magnitude of the arbitrary velocity components, in velocity units
AnyVelMag == 32000

AnyVel == {-AnyVelMag, 0, AnyVelMag}

\* a grid of still fluid
ZeroGrid(w, h) ==
  [c \in Cells(w, h) |->
     [cellType |-> "FLUID", pressure |-> UnitPressure,
      vel |-> <<0, 0>>, stagedVel |-> <<0, 0>>]]

InitAny ==
  /\ pc = "idle"
  /\ _width \in 1 .. MaxDim
  /\ _height \in 1 .. MaxDim
  /\ \E base \in {ZeroGrid(_width, _height), ResetGrid(_width, _height)},
        hot \in Cells(_width, _height),
        vx \in AnyVel, vy \in AnyVel, type \in CellTypes :
       _grid = [base EXCEPT ![hot].vel = <<vx, vy>>, ![hot].cellType = type]
  /\ _frameReady = FALSE
  /\ _particles = ResetParticles(1, 1)
  /\ lastOp = "reset"
  /\ InitRest

NextAny ==
  \/ AdvanceFrame
  \/ LoopExit
  \/ LoopReady
  \/ LoopStep
  \/ StageX
  \/ StageY
  \/ Commit
  \/ ApplyForce
  \/ PressureSolve
  \/ BoundaryCollide
  \/ MoveParticles
  \/ Decrement

SpecAny == InitAny /\ [][NextAny]_vars

(***************************************************************************)
(* Properties.                                                             *)
(***************************************************************************)
\* advanceFrame() was called with no frame ready and is running or has run
Advancing == lastOp = "advanceFrame" /\ ~entryReady

\* the positions of advanceTimeStep
SubStepPcs == {"stageX", "stageY", "commit", "force", "pressure", "boundary",
               "particles", "decrement"}

\* C1: draw calls the renderer's drawGrid with the current grid and particles
\* exactly when the frame-ready flag is true, and then clears the flag; with
\* the flag false it calls nothing and changes no solver state; a draw that
\* directly follows a draw calls nothing.
C1_DrawHandsOffOnce ==
  [][lastOp' = "draw" =>
       /\ IF _frameReady
          THEN /\ drawGridCalls' = << [grid |-> _grid, particles |-> _particles] >>
               /\ ~_frameReady'
               /\ UNCHANGED <<_width, _height, _grid, _particles>>
          ELSE /\ drawGridCalls' = << >>
               /\ UNCHANGED solver
       /\ lastOp = "draw" => drawGridCalls' = << >>]_vars

\* a draw has handed a simulated frame to the renderer
C1_Witness ==
  /\ lastOp = "draw"
  /\ Len(drawGridCalls) = 1
  /\ ~_frameReady
  /\ frames >= 1

\* C2: advanceFrame() called with the flag false returns with the flag true;
\* during the call the flag is true only once the remaining frame time is
\* zero; every sub-step's dt is min(remaining time, CFL / max magnitude) and
\* so never exceeds the remaining time.
C2_ReadyOnlyAtZero ==
  /\ (Advancing /\ pc = "idle") => _frameReady
  /\ (Advancing /\ _frameReady) => (frameTimeSec = 0 /\ pc = "idle")
  /\ (Advancing /\ pc \in SubStepPcs /\ pc # "decrement") =>
       /\ simTimeStepSec <= frameTimeSec
       /\ simTimeStepSec * maxMag <= CFLCoefficient * TicksPerSec * VelUnit
       /\ simTimeStepSec < frameTimeSec =>
            (simTimeStepSec + 1) * maxMag > CFLCoefficient * TicksPerSec * VelUnit

\* advanceFrame() has returned after a sub-step shorter than the frame
C2_Witness ==
  /\ Advancing
  /\ pc = "idle"
  /\ _frameReady
  /\ stepped
  /\ simTimeStepSec < FrameTicks

\* C3: advanceFrame() always returns; when every cell's velocity is zero the
\* sub-step lasts the whole remaining frame time and no time remains after it.
C3_AdvanceFrameTerminates ==
  /\ [](pc \in SubStepPcs /\ maxMag = 0 /\ pc # "decrement"
          => simTimeStepSec = frameTimeSec)
  /\ [](pc = "loop" /\ stepped /\ maxMag = 0 => frameTimeSec = 0)
  /\ (pc = "loop") ~> (pc = "idle")

\* advanceFrame() has returned from a grid whose velocity was zero everywhere
C3_Witness ==
  /\ Advancing
  /\ pc = "idle"
  /\ _frameReady
  /\ stepped
  /\ maxMag = 0

\* C4: a solver holds 16 tracers per grid cell at all times, and after reset()
\* (or construction) no frame is ready and the particles are the fresh
\* tracers alone.
C4_ResetParticles ==
  /\ pc # "none" =>
       Len(_particles) = 16 * Cardinality(Cells(_width, _height))
  /\ lastOp \in {"construct", "reset"} =>
       /\ ~_frameReady
       /\ _particles = ResetParticles(_width, _height)

\* reset() has run on a 4 x 4 solver after a frame was simulated
C4_Witness ==
  /\ lastOp = "reset"
  /\ frames >= 1
  /\ _width = 4
  /\ _height = 4
  /\ Len(_particles) = 256

\* the velocity components that cross an edge face of the grid are zero
BoundaryVelZero ==
  /\ \A x \in 0 .. (_width - 1) :
       /\ _grid[<<x, 0>>].vel[Y] = 0
       /\ _grid[<<x, _height - 1>>].vel = <<0, 0>>
  /\ \A y \in 0 .. (_height - 1) :
       /\ _grid[<<0, y>>].vel[X] = 0
       /\ _grid[<<_width - 1, y>>].vel = <<0, 0>>

\* C5: after boundaryCollide, and when advanceFrame() returns after at least
\* one sub-step, the bottom row's Y velocity, the top row's X and Y velocity,
\* the left column's X velocity and the right column's X and Y velocity are 0.
C5_BoundaryVelZero ==
  (\/ pc \in {"particles", "decrement"}
   \/ (pc \in {"loop", "idle"} /\ lastOp = "advanceFrame" /\ stepped))
  => BoundaryVelZero

\* advanceFrame() has returned from a grid whose top right cell was moving
C5_Witness ==
  /\ pc = "idle"
  /\ lastOp = "advanceFrame"
  /\ stepped
  /\ _frameReady
  /\ preVel[<<_width - 1, _height - 1>>] # <<0, 0>>

\* C6: no solver exists with a width or a height that is not positive.
C6_RejectsNonPositiveSize ==
  pc # "none" => (_width > 0 /\ _height > 0)

\* C7: one pressureSolve on a 4 x 4 grid of FLUID cells whose divergence is
\* not zero makes the sum of the absolute divergences strictly smaller.
C7_SolveReducesDivergence ==
  (pc = "boundary" /\ _width = 4 /\ _height = 4 /\ fluidBefore /\ divBefore # 0)
  => SumAbsDivergence(_grid, _width, _height) < divBefore

\* the cells of the outermost rows and columns
OuterCells(w, h) ==
  {c \in Cells(w, h) : c[1] \in {0, w - 1} \/ c[2] \in {0, h - 1}}

\* the cells of the top row and of the right column
TopRightCells(w, h) ==
  {c \in Cells(w, h) : c[1] = w - 1 \/ c[2] = h - 1}

\* boundaryCollide has run in the sub-step in progress
AfterBoundary == pc \in {"particles", "decrement"}

\* C8 as stated: after boundaryCollide every cell of the bottom row, the top
\* row, the left column and the right column is SOLID.
C8_OuterCellsSolid ==
  AfterBoundary =>
    \A c \in OuterCells(_width, _height) : _grid[c].cellType = "SOLID"

\* C8 amended: after boundaryCollide every cell of the top row and of the
\* right column is SOLID, and every other cell is as reset() made it, FLUID.
C8_TopRightCellsSolid ==
  AfterBoundary =>
    \A c \in Cells(_width, _height) :
      _grid[c].cellType =
        IF c \in TopRightCells(_width, _height) THEN "SOLID" ELSE "FLUID"

\* boundaryCollide has run on a grid with a bottom left cell of its own
C8_Witness ==
  /\ AfterBoundary
  /\ _width >= 2
  /\ _height >= 2
  /\ _grid[<<0, 0>>].cellType = "FLUID"
  /\ _grid[<<_width - 1, _height - 1>>].cellType = "SOLID"

\* the grid whose velocities are the field v
FieldGrid(v, w, h) ==
  [c \in Cells(w, h) |->
     [cellType |-> "FLUID", pressure |-> UnitPressure,
      vel |-> v[c], stagedVel |-> <<0, 0>>]]

\* the velocity advection stages for a face, computed from the field v
StagedFrom(v, w, h, pos, dt) ==
  LET g == FieldGrid(v, w, h)
  IN getVelocity(g, w, h, ClampPosition(w, h, Backtrace(g, w, h, pos, dt)))

\* the order of the stages of a sub-step
StageOrder ==
  /\ pc = "stageX" => pc' \in {"stageX", "stageY"}
  /\ pc = "stageY" => pc' \in {"stageY", "commit"}
  /\ pc = "commit" => pc' = "force" /\ VelField(_grid', _width, _height) =
                        [c \in Cells(_width, _height) |-> _grid[c].stagedVel]
  /\ pc = "force" => pc' = "pressure"
  /\ pc = "pressure" => pc' = "boundary"
  /\ pc = "boundary" => pc' = "particles"
  /\ pc = "particles" => pc' = "decrement"

\* C9: a sub-step stages every face, commits, applies the force, solves the
\* pressure, enforces the boundary and moves the particles, in this order;
\* while it stages no cell's vel changes, and what it has staged when it
\* commits is computed from the velocity field of before the advection.
C9_StagedAdvection ==
  /\ [](pc \in {"stageX", "stageY", "commit"} =>
          VelField(_grid, _width, _height) = preVel)
  /\ [](pc = "commit" =>
          \A k \in 0 .. (_width * _height - 1) :
            /\ _grid[FaceX(_width, _height, k).cell].stagedVel[X] =
                 StagedFrom(preVel, _width, _height,
                            FaceX(_width, _height, k).pos, simTimeStepSec)[X]
            /\ _grid[FaceY(_width, _height, k).cell].stagedVel[Y] =
                 StagedFrom(preVel, _width, _height,
                            FaceY(_width, _height, k).pos, simTimeStepSec)[Y])
  /\ [][StageOrder]_vars

\* every face is staged and some staged velocity differs from the cell's vel
C9_Witness ==
  /\ pc = "commit"
  /\ _width >= 2
  /\ \E c \in Cells(_width, _height) : _grid[c].stagedVel # _grid[c].vel

\* C10: the point advectVelocity hands to the sampler for staging lies in
\* [0, width] x [0, height].
C10_SamplePointClamped ==
  samplePos # NoPos =>
    /\ 0 <= samplePos[1] /\ samplePos[1] <= _width * PosUnit
    /\ 0 <= samplePos[2] /\ samplePos[2] <= _height * PosUnit

====
